---- MODULE Spec2Model ----
(***************************************************************************)
(* Model of the upload/processing queue of public/app.js: the item queue,  *)
(* the upload call, the optimistic processing request with its rollback,   *)
(* the polling loop and the normalisers of the server's payloads.          *)
(*                                                                         *)
(* One action is one run of a handler from the event that starts it to its *)
(* first await or to its end: the JavaScript event loop runs each such     *)
(* piece without interleaving.  A pending fetch is an entry of uploads,    *)
(* processRequests or statusRequests; the server's answer is an input of   *)
(* the action that resumes the handler.                                    *)
(***************************************************************************)
EXTENDS Integers, Sequences, FiniteSets, TLC

\* ------------------------------------------------------------------ bounds

\* Items the queue may hold.
MaxItems == 2
\* Files in one selection (one drop or one file-input change).
MaxSelection == 2
\* Processing requests in flight at once.
MaxProcessRequests == 2
\* Status requests in flight at once.
MaxStatusRequests == 2
\* Events of one run of the program: the user's selections and clicks, the
\* server's responses and the timer's ticks that issue a status request.
MaxEvents == 6
\* Server payloads applied in a row to one item.
MaxApplications == 2

\* ------------------------------------------------------------ JS values

\* null / undefined / an absent field of a payload.
Null == "<null>"

\* A JavaScript string is falsy when empty; null and undefined are falsy.
Truthy(v) == v # Null /\ v # ""

\* a || b without its second operand.
Or_First(a, b) == a

\* a || b
Or(a, b) == IF Truthy(a) THEN a ELSE b

\* Array.prototype.find: the least of the indices that pass the test, 0 when
\* none does.
FirstIndex(indices) ==
    IF indices = {} THEN 0
    ELSE CHOOSE i \in indices : \A j \in indices : i <= j

RECURSIVE SelectIndices(_)
\* Array.prototype.filter: the indices that pass the test, in array order.
SelectIndices(indices) ==
    IF indices = {} THEN << >>
    ELSE <<FirstIndex(indices)>> \o SelectIndices(indices \ {FirstIndex(indices)})

\* s without its k-th element.
RemoveAt(s, k) == SubSeq(s, 1, k - 1) \o SubSeq(s, k + 1, Len(s))

\* ------------------------------------------------------------- constants

FILE_SIZE_LIMIT == 25 * 1024 * 1024

\* The MIME types of the model's files that start with ACCEPTED_MIME_PREFIX.
ImageTypes == {"image/png"}

\* The names of the model's files that end with one of ACCEPTED_EXTENSIONS.
AcceptedNames == {"a.png", "b.png", "big.png"}

CanonicalStatuses ==
    {"queued", "uploading", "uploaded", "processing", "processed", "failed"}

\* ------------------------------------------------------------ normalisers

UpperCase == <<"A","B","C","D","E","F","G","H","I","J","K","L","M",
               "N","O","P","Q","R","S","T","U","V","W","X","Y","Z">>
LowerCase == <<"a","b","c","d","e","f","g","h","i","j","k","l","m",
               "n","o","p","q","r","s","t","u","v","w","x","y","z">>

toLowerCaseChar(c) ==
    IF \E i \in 1..26 : UpperCase[i] = c
    THEN LowerCase[CHOOSE i \in 1..26 : UpperCase[i] = c]
    ELSE c

RECURSIVE toLowerCase(_)
\* String.prototype.toLowerCase of a string given as its sequence of
\* characters; the result is a string.
toLowerCase(chars) ==
    IF chars = << >> THEN ""
    ELSE toLowerCaseChar(Head(chars)) \o toLowerCase(Tail(chars))

\* A status string of a payload is a sequence of characters; the empty one
\* also stands for an absent field (both are falsy).
StatusTruthy(v) == v # << >>

StatusOr(a, b) == IF StatusTruthy(a) THEN a ELSE b

RECURSIVE CharsToString(_)
\* The string of a sequence of characters, as it is.
CharsToString(chars) ==
    IF chars = << >> THEN ""
    ELSE Head(chars) \o CharsToString(Tail(chars))

\* normaliseStatus with "default: return value" for "default: return
\* normalised": an unknown status passes through without being lower-cased.
normaliseStatus_Verbatim(value) ==
    IF ~StatusTruthy(value) THEN Null
    ELSE LET normalised == toLowerCase(value) IN
         CASE normalised \in {"queued", "waiting", "pending"} -> "uploaded"
           [] normalised = "uploading" -> "uploading"
           [] normalised \in {"uploaded", "ready"} -> "uploaded"
           [] normalised \in {"processing", "in_progress"} -> "processing"
           [] normalised \in {"processed", "completed", "complete", "success", "done"}
                -> "processed"
           [] normalised \in {"failed", "error", "errored"} -> "failed"
           [] OTHER -> CharsToString(value)

\* normaliseStatus with "switch (value)" for "switch (normalised)": the
\* table is matched case-sensitively.
normaliseStatus_CaseSensitive(value) ==
    IF ~StatusTruthy(value) THEN Null
    ELSE LET normalised == toLowerCase(value)
             verbatim == CharsToString(value) IN
         CASE verbatim \in {"queued", "waiting", "pending"} -> "uploaded"
           [] verbatim = "uploading" -> "uploading"
           [] verbatim \in {"uploaded", "ready"} -> "uploaded"
           [] verbatim \in {"processing", "in_progress"} -> "processing"
           [] verbatim \in {"processed", "completed", "complete", "success", "done"}
                -> "processed"
           [] verbatim \in {"failed", "error", "errored"} -> "failed"
           [] OTHER -> normalised

normaliseStatus(value) ==
    IF ~StatusTruthy(value) THEN Null
    ELSE LET normalised == toLowerCase(value) IN
         CASE normalised \in {"queued", "waiting", "pending"} -> "uploaded"
           [] normalised = "uploading" -> "uploading"
           [] normalised \in {"uploaded", "ready"} -> "uploaded"
           [] normalised \in {"processing", "in_progress"} -> "processing"
           [] normalised \in {"processed", "completed", "complete", "success", "done"}
                -> "processed"
           [] normalised \in {"failed", "error", "errored"} -> "failed"
           [] OTHER -> normalised

\* A progress value of a payload is [t |-> "undefined", h |-> 0] (absent),
\* [t |-> "string", h |-> 0] (not a number) or [t |-> "number", h |-> n]: the
\* number n/100.
Undefined == [t |-> "undefined", h |-> 0]
NotANumber == [t |-> "string", h |-> 0]
Number(h) == [t |-> "number", h |-> h]

\* Math.round(h / 100): the nearest integer, halves towards +infinity.
MathRound(h) == (h + 50) \div 100

IsNumber(value) == value.t = "number"

normaliseProgress(value) ==
    IF ~IsNumber(value) THEN 0
    ELSE IF value.h <= 100 THEN value.h
    ELSE MathRound(value.h)

\* ------------------------------------------------------------ the queue

VARIABLES
    items,             \* state.items
    pollTimer,         \* state.pollTimer: TRUE while an interval timer is set
    intervalTimers,    \* the timers of setInterval that no clearInterval cleared
    batchDownloadUrl,  \* state.batchDownloadUrl
    pollErrorNotified, \* pollErrorNotified
    notifiedSinceSuccess, \* history: a poll-failure notification was shown
                       \* since the last successful poll pass
    uploads,           \* the items (indices) whose upload fetch is pending
    processRequests,   \* the pending fetches of requestProcessing
    statusRequests,    \* the number of pending fetches of pollStatuses
    events,            \* the events handled so far
    last               \* the handler piece that ran last

vars == <<items, pollTimer, intervalTimers, batchDownloadUrl, pollErrorNotified,
          notifiedSinceSuccess, uploads, processRequests, statusRequests,
          events, last>>

Step(op, idx) == [op |-> op, idx |-> idx]

\* One more event is handled.
Event == events < MaxEvents /\ events' = events + 1

canRequestProcessing(item) ==
    Truthy(item.serverId) /\ item.status \in {"uploaded", "failed"}

shouldPoll(item) ==
    Truthy(item.serverId) /\ item.status \in {"uploading", "uploaded", "processing"}

SomeShouldPoll(its) == \E i \in 1..Len(its) : shouldPoll(its[i])

\* state.items.filter(shouldPoll).map(item => item.serverId)
PollIds(its) ==
    LET idx == SelectIndices({i \in 1..Len(its) : shouldPoll(its[i])})
    IN  [k \in 1..Len(idx) |-> its[idx[k]].serverId]

\* ------------------------------------------------------------ the files

File(name, size, lastModified, type) ==
    [name |-> name, size |-> size, lastModified |-> lastModified, type |-> type]

\* The files the user can select: two images, an image over the size limit
\* and a file that is no image.  A selection may hold the same file twice.
Files ==
    { File("a.png", 1024, 1, "image/png"),
      File("b.png", 1024, 1, "image/png"),
      File("big.png", FILE_SIZE_LIMIT + 1, 1, "image/png"),
      File("notes.txt", 1024, 1, "text/plain") }

Selections ==
    UNION { [1..n -> Files] : n \in 1..MaxSelection }

validateFile(file) ==
    /\ ~(file.size > FILE_SIZE_LIMIT)
    /\ LET mimeValid == file.type = "" \/ file.type \in ImageTypes
           extensionValid == file.name \in AcceptedNames
       IN  ~(~mimeValid /\ ~extensionValid)

isDuplicateFile(its, file) ==
    \E i \in 1..Len(its) :
        /\ its[i].name = file.name
        /\ its[i].size = file.size
        /\ its[i].lastModified = file.lastModified

\* window.crypto.randomUUID(): a fresh identifier for the n-th item.
generateClientId(n) == "c" \o ToString(n)

\* URL.createObjectURL(file): the blob URL of the preview of an item's file.
BlobUrl(clientId) == "blob:" \o clientId

\* value.startsWith("blob:")
StartsWithBlob(value) == \E n \in 1..MaxItems : value = BlobUrl(generateClientId(n))

\* The item queueFile builds.  file is TRUE while the item holds its File.
NewItem(clientId, file) ==
    [ clientId |-> clientId,
      name |-> file.name,
      size |-> file.size,
      lastModified |-> file.lastModified,
      status |-> "queued",
      progress |-> 0,
      file |-> TRUE,
      originalPreviewUrl |-> BlobUrl(clientId),
      originalUrl |-> Null,
      processedPreviewUrl |-> Null,
      message |-> "",
      serverId |-> Null,
      processedUrl |-> Null,
      downloadOriginalUrl |-> Null,
      downloadProcessedUrl |-> Null ]

\* ------------------------------------------------------------ payloads

\* A decoded JSON object of the server, with every field the client reads;
\* an absent field is Null (<< >> for errors and the status strings,
\* Undefined for the progress numbers).  A body that does not decode
\* (payload = null) reads like the object with no field.
NoFields ==
    [ id |-> Null, uploadId |-> Null, uuid |-> Null, fileId |-> Null,
      identifier |-> Null,
      status |-> << >>, state |-> << >>, stage |-> << >>,
      progress |-> Undefined, percentage |-> Undefined,
      originalUrl |-> Null, sourceUrl |-> Null, thumbnailUrl |-> Null,
      processedUrl |-> Null, resultUrl |-> Null, previewUrl |-> Null,
      processedPreviewUrl |-> Null,
      downloadOriginalUrl |-> Null, originalDownloadUrl |-> Null,
      downloadProcessedUrl |-> Null, processedDownloadUrl |-> Null,
      downloadUrl |-> Null, resultDownloadUrl |-> Null,
      errors |-> << >>, error |-> Null, message |-> Null,
      zipUrl |-> Null ]

\* entry?.id || entry?.uploadId || entry?.uuid || entry?.fileId || entry?.identifier
PayloadIdentifier(payload) ==
    Or(payload.id, Or(payload.uploadId, Or(payload.uuid,
        Or(payload.fileId, payload.identifier))))

\* The bodies of a successful upload response.
UploadPayloads ==
    { NoFields,
      [NoFields EXCEPT !.id = "s1", !.status = <<"u","p","l","o","a","d","e","d">>,
                       !.progress = Number(10000)],
      [NoFields EXCEPT !.uploadId = "s1", !.state = <<"D","O","N","E">>,
                       !.progress = Number(42)] }

\* The text of a failed call: the body of a non-success response, or the
\* message of the error fetch rejects with; either may be empty.
ErrorTexts == {"", "boom"}

\* ------------------------------------------------------------ polling

\* The bounds leave room for one more status request.
CanFetchStatus == statusRequests < MaxStatusRequests

\* ensurePolling() when its is the queue: whether it starts the loop.
EnsurePollingStarts(its) == ~pollTimer /\ SomeShouldPoll(its)

\* ensurePolling() without "if (state.pollTimer) return": with a pollable
\* item it runs a pass and sets a timer, also while a timer is set.
ensurePolling_NoGuard(its) ==
    /\ SomeShouldPoll(its) => CanFetchStatus
    /\ statusRequests' = statusRequests + (IF SomeShouldPoll(its) THEN 1 ELSE 0)
    /\ pollTimer' = (pollTimer \/ SomeShouldPoll(its))
    /\ intervalTimers' = intervalTimers + (IF SomeShouldPoll(its) THEN 1 ELSE 0)

\* ensurePolling(): a running loop is left alone; otherwise, with a pollable
\* item, pollStatuses() runs to its fetch and the interval timer is set.
ensurePolling(its) ==
    /\ EnsurePollingStarts(its) => CanFetchStatus
    /\ statusRequests' = statusRequests + (IF EnsurePollingStarts(its) THEN 1 ELSE 0)
    /\ pollTimer' = (pollTimer \/ EnsurePollingStarts(its))
    /\ intervalTimers' = intervalTimers + (IF EnsurePollingStarts(its) THEN 1 ELSE 0)

\* ------------------------------------------------------------ intake

Init ==
    /\ items = << >>
    /\ pollTimer = FALSE
    /\ intervalTimers = 0
    /\ batchDownloadUrl = Null
    /\ pollErrorNotified = FALSE
    /\ notifiedSinceSuccess = FALSE
    /\ uploads = {}
    /\ processRequests = << >>
    /\ statusRequests = 0
    /\ events = 0
    /\ last = Step("init", 0)

\* handleFileSelection's filter without its isDuplicateFile branch.
AcceptedFiles_NoDuplicateTest(its, fileList) ==
    SelectIndices({n \in 1..Len(fileList) : validateFile(fileList[n])})

\* The items of the queue that a file of fileList is rejected for: the file
\* is valid and isDuplicateFile finds the item.
DuplicatedItems(its, fileList) ==
    {i \in 1..Len(its) :
        \E n \in 1..Len(fileList) :
            validateFile(fileList[n]) /\ isDuplicateFile(<<its[i]>>, fileList[n])}

\* handleFileSelection's filter: the indices of the files it accepts.  Every
\* file is tested against the queue as it is before any of them is queued.
AcceptedFiles(its, fileList) ==
    SelectIndices({n \in 1..Len(fileList) :
                      validateFile(fileList[n]) /\ ~isDuplicateFile(its, fileList[n])})

\* uploadFile(item) up to its fetch.
StartUpload(item) ==
    [item EXCEPT !.status = "uploading", !.progress = 0, !.message = ""]

RECURSIVE QueueFiles(_, _, _, _)
\* acceptedFiles.forEach(queueFile): each file becomes an item at the end of
\* the queue and its upload is started.
QueueFiles(its, fileList, accepted, k) ==
    IF k > Len(accepted) THEN its
    ELSE QueueFiles(
            Append(its, StartUpload(NewItem(generateClientId(Len(its) + 1),
                                            fileList[accepted[k]]))),
            fileList, accepted, k + 1)

\* The user drops or picks the files of fileList.
HandleFileSelection(fileList) ==
    LET accepted == AcceptedFiles(items, fileList) IN
    /\ Event
    /\ Len(items) + Len(accepted) <= MaxItems
    /\ items' = QueueFiles(items, fileList, accepted, 1)
    /\ uploads' = uploads \cup ((Len(items) + 1)..(Len(items) + Len(accepted)))
    /\ batchDownloadUrl' = IF accepted = << >> THEN batchDownloadUrl ELSE Null
    /\ last' = [op |-> "handleFileSelection", idx |-> Len(accepted),
                duplicateOf |-> DuplicatedItems(items, fileList)]
    /\ UNCHANGED <<pollTimer, intervalTimers, pollErrorNotified, notifiedSinceSuccess, processRequests, statusRequests>>

\* UploadedItem with "item.progress = 100": an explicit progress of the
\* response is ignored.
UploadedItem_IgnoresProgress(item, payload) ==
    LET identifier == Or(PayloadIdentifier(payload), Or(item.serverId, item.clientId))
        status == LET n == normaliseStatus(StatusOr(payload.status, payload.state))
                  IN  IF n = Null THEN "uploaded" ELSE n
        progress == 100
    IN  [item EXCEPT
            !.serverId = identifier,
            !.status = status,
            !.progress = IF status = "processed" THEN 100 ELSE progress,
            !.originalUrl = Or(payload.originalUrl, Or(payload.sourceUrl, item.originalUrl)),
            !.downloadOriginalUrl =
                Or(payload.downloadOriginalUrl,
                   Or(payload.originalDownloadUrl, item.downloadOriginalUrl)),
            !.processedUrl = Or(payload.processedUrl, Or(payload.resultUrl, item.processedUrl)),
            !.downloadProcessedUrl =
                Or(payload.processedDownloadUrl,
                   Or(payload.downloadUrl, item.downloadProcessedUrl)),
            !.message = Or(payload.message, ""),
            !.file = FALSE]

\* uploadFile's assignments after a successful response with body payload.
UploadedItem(item, payload) ==
    LET identifier == Or(PayloadIdentifier(payload), Or(item.serverId, item.clientId))
        status == LET n == normaliseStatus(StatusOr(payload.status, payload.state))
                  IN  IF n = Null THEN "uploaded" ELSE n
        progress == IF payload.progress # Undefined
                    THEN normaliseProgress(payload.progress)
                    ELSE 100
    IN  [item EXCEPT
            !.serverId = identifier,
            !.status = status,
            !.progress = IF status = "processed" THEN 100 ELSE progress,
            !.originalUrl = Or(payload.originalUrl, Or(payload.sourceUrl, item.originalUrl)),
            !.downloadOriginalUrl =
                Or(payload.downloadOriginalUrl,
                   Or(payload.originalDownloadUrl, item.downloadOriginalUrl)),
            !.processedUrl = Or(payload.processedUrl, Or(payload.resultUrl, item.processedUrl)),
            !.downloadProcessedUrl =
                Or(payload.processedDownloadUrl,
                   Or(payload.downloadUrl, item.downloadProcessedUrl)),
            !.message = Or(payload.message, ""),
            !.file = FALSE]

\* The upload of item i returns a success response.
UploadSuccess(i, payload) ==
    /\ Event
    /\ i \in uploads
    /\ uploads' = uploads \ {i}
    /\ items' = [items EXCEPT ![i] = UploadedItem(items[i], payload)]
    /\ ensurePolling(items')
    /\ last' = Step("uploadSuccess", i)
    /\ UNCHANGED <<batchDownloadUrl, pollErrorNotified, notifiedSinceSuccess, processRequests>>

\* The catch block with "item.message = error?.message": no generic text
\* stands in for an empty one.
UploadFailedItem_RawText(item, text) ==
    [item EXCEPT !.status = "failed", !.progress = 0, !.message = text]

\* uploadFile's catch block.
UploadFailedItem(item, text) ==
    [item EXCEPT !.status = "failed", !.progress = 0,
                 !.message = Or(text, "Upload failed")]

\* The upload of item i returns a non-success response or fails in transport.
UploadFailure(i, text) ==
    /\ Event
    /\ i \in uploads
    /\ uploads' = uploads \ {i}
    /\ items' = [items EXCEPT ![i] = UploadFailedItem(items[i], text)]
    /\ last' = Step("uploadFailure", i)
    /\ UNCHANGED <<pollTimer, intervalTimers, batchDownloadUrl, pollErrorNotified, notifiedSinceSuccess,
                   processRequests, statusRequests>>


\* ------------------------------------------------ the processing request

\* state.items.find(item => item.serverId === id), as an index (0: none).
FindByServerId(its, id) == FirstIndex({i \in 1..Len(its) : its[i].serverId = id})

RECURSIVE Snapshots(_, _, _)
\* requestProcessing's snapshots: for every id, in order, the first item with
\* that serverId and its status and message; ids without an item are dropped.
Snapshots(its, ids, k) ==
    IF k > Len(ids) THEN << >>
    ELSE LET i == FindByServerId(its, ids[k]) IN
         (IF i = 0 THEN << >>
          ELSE << [item |-> i, status |-> its[i].status, message |-> its[i].message] >>)
         \o Snapshots(its, ids, k + 1)

SnapshotItems(snapshots) == { snapshots[k].item : k \in 1..Len(snapshots) }

\* The optimistic transition with "item.progress = 5" outside its test.
OptimisticItem_SetsFive(item) ==
    [item EXCEPT !.status = "processing", !.message = "", !.progress = 5]

\* snapshots.forEach(({ item }) => { ... }): the optimistic transition.
OptimisticItem(item) ==
    [item EXCEPT !.status = "processing", !.message = "",
                 !.progress = IF item.progress < 5 THEN 5 ELSE item.progress]

Optimistic(its, snapshots) ==
    [i \in 1..Len(its) |->
        IF i \in SnapshotItems(snapshots) THEN OptimisticItem(its[i]) ELSE its[i]]

\* requestProcessing(ids) up to its fetch.
requestProcessing(ids, op, idx) ==
    LET snapshots == Snapshots(items, ids, 1) IN
    /\ Event
    /\ Len(ids) > 0
    /\ Len(processRequests) < MaxProcessRequests
    /\ items' = Optimistic(items, snapshots)
    /\ ensurePolling(items')
    /\ processRequests' = Append(processRequests, [ids |-> ids, snapshots |-> snapshots])
    /\ last' = [op |-> op, idx |-> idx, started |-> EnsurePollingStarts(items')]
    /\ UNCHANGED <<batchDownloadUrl, pollErrorNotified, notifiedSinceSuccess, uploads>>

\* The click handler of processAllBtn.
ProcessAll ==
    LET readyItems == SelectIndices({i \in 1..Len(items) : canRequestProcessing(items[i])})
        ids == [k \in 1..Len(readyItems) |-> items[readyItems[k]].serverId]
    IN  /\ Len(readyItems) > 0
        /\ requestProcessing(ids, "processAll", 0)

\* The click handler of the process-one button of item i.
ProcessOne(i) ==
    /\ i \in 1..Len(items)
    /\ canRequestProcessing(items[i])
    /\ requestProcessing(<<items[i].serverId>>, "processOne", i)

\* The bodies of a successful processing response: the zipUrl they carry.
ProcessZipUrls == {Null, "z1"}

\* ProcessSuccess with "state.batchDownloadUrl = payload?.zipUrl" outside the
\* "if (payload?.zipUrl)": a response without zipUrl clears the location.
ProcessSuccess_AssignsAbsentZip(k, zipUrl) ==
    /\ Event
    /\ k \in 1..Len(processRequests)
    /\ processRequests' = RemoveAt(processRequests, k)
    /\ batchDownloadUrl' = zipUrl
    /\ last' = Step("processSuccess", 0)
    /\ UNCHANGED <<items, pollTimer, intervalTimers, pollErrorNotified, notifiedSinceSuccess, uploads, statusRequests>>

\* The processing request k returns a success response.
ProcessSuccess(k, zipUrl) ==
    /\ Event
    /\ k \in 1..Len(processRequests)
    /\ processRequests' = RemoveAt(processRequests, k)
    /\ batchDownloadUrl' = IF Truthy(zipUrl) THEN zipUrl ELSE batchDownloadUrl
    /\ last' = Step("processSuccess", 0)
    /\ UNCHANGED <<items, pollTimer, intervalTimers, pollErrorNotified, notifiedSinceSuccess, uploads, statusRequests>>

RECURSIVE Rollback_StatusOnly(_, _, _)
\* Rollback without "item.message = message": only the status is restored.
Rollback_StatusOnly(its, snapshots, k) ==
    IF k > Len(snapshots) THEN its
    ELSE Rollback_StatusOnly(
            [its EXCEPT ![snapshots[k].item].status = snapshots[k].status],
            snapshots, k + 1)

RECURSIVE Rollback_ResetsProgress(_, _, _)
\* Rollback with "item.progress = 0" added: the progress is rolled back too.
Rollback_ResetsProgress(its, snapshots, k) ==
    IF k > Len(snapshots) THEN its
    ELSE Rollback_ResetsProgress(
            [its EXCEPT ![snapshots[k].item].status = snapshots[k].status,
                        ![snapshots[k].item].message = snapshots[k].message,
                        ![snapshots[k].item].progress = 0],
            snapshots, k + 1)

RECURSIVE Rollback(_, _, _)
\* requestProcessing's catch block: snapshots.forEach, in order.
Rollback(its, snapshots, k) ==
    IF k > Len(snapshots) THEN its
    ELSE Rollback([its EXCEPT ![snapshots[k].item].status = snapshots[k].status,
                              ![snapshots[k].item].message = snapshots[k].message],
                  snapshots, k + 1)

\* The processing request k returns a non-success response or fails in
\* transport.
ProcessFailure(k) ==
    /\ Event
    /\ k \in 1..Len(processRequests)
    /\ processRequests' = RemoveAt(processRequests, k)
    /\ items' = Rollback(items, processRequests[k].snapshots, 1)
    /\ last' = Step("processFailure", Len(processRequests[k].snapshots))
    /\ UNCHANGED <<pollTimer, intervalTimers, batchDownloadUrl, pollErrorNotified, notifiedSinceSuccess, uploads,
                   statusRequests>>

\* ------------------------------------------------------ the polling loop

RECURSIVE Join_Default(_)
\* Array.prototype.join(): the default separator is a comma.
Join_Default(strings) ==
    IF strings = << >> THEN ""
    ELSE IF Len(strings) = 1 THEN strings[1]
    ELSE strings[1] \o "," \o Join_Default(Tail(strings))

RECURSIVE Join(_)
\* Array.prototype.join(" ")
Join(strings) ==
    IF strings = << >> THEN ""
    ELSE IF Len(strings) = 1 THEN strings[1]
    ELSE strings[1] \o " " \o Join(Tail(strings))

\* updateItemFromServer with the test of "processed" at its top: the progress
\* is forced by the status the item had before the record.
updateItemFromServer_ForcesProgressFirst(item, payload) ==
    LET nextStatus ==
            normaliseStatus(StatusOr(payload.status, StatusOr(payload.state, payload.stage)))
        status1 == IF nextStatus # Null THEN nextStatus ELSE item.status
        progress1 ==
            IF IsNumber(payload.progress) THEN normaliseProgress(payload.progress)
            ELSE IF IsNumber(payload.percentage) THEN normaliseProgress(payload.percentage)
            ELSE item.progress
        original == Or(payload.originalUrl, Or(payload.sourceUrl, payload.thumbnailUrl))
        processed == Or(payload.processedUrl, Or(payload.resultUrl, payload.previewUrl))
        processedUrl1 == IF Truthy(processed) THEN processed ELSE item.processedUrl
        downloadOriginal == Or(payload.downloadOriginalUrl, payload.originalDownloadUrl)
        downloadProcessed ==
            Or(payload.downloadProcessedUrl, Or(payload.downloadUrl, payload.resultDownloadUrl))
        hasErrors == Len(payload.errors) > 0
        status2 == IF hasErrors \/ Truthy(payload.error) THEN "failed" ELSE status1
        message2 ==
            IF hasErrors THEN Join(payload.errors)
            ELSE IF Truthy(payload.error) THEN payload.error
            ELSE IF Truthy(payload.message) THEN payload.message
            ELSE item.message
        originalUrl1 == IF Truthy(original) THEN original ELSE item.originalUrl
    IN  [item EXCEPT
            !.status = status2,
            !.progress = IF item.status = "processed" THEN 100 ELSE progress1,
            !.originalUrl = originalUrl1,
            !.originalPreviewUrl =
                IF /\ status2 = "processed"
                   /\ StartsWithBlob(item.originalPreviewUrl)
                   /\ Truthy(originalUrl1)
                   /\ originalUrl1 # item.originalPreviewUrl
                THEN Null
                ELSE item.originalPreviewUrl,
            !.processedUrl =
                IF Truthy(payload.processedPreviewUrl) /\ ~Truthy(processedUrl1)
                THEN payload.processedPreviewUrl
                ELSE processedUrl1,
            !.processedPreviewUrl =
                IF Truthy(payload.processedPreviewUrl)
                THEN payload.processedPreviewUrl
                ELSE item.processedPreviewUrl,
            !.downloadOriginalUrl =
                IF Truthy(downloadOriginal) THEN downloadOriginal
                ELSE item.downloadOriginalUrl,
            !.downloadProcessedUrl =
                IF Truthy(downloadProcessed) THEN downloadProcessed
                ELSE item.downloadProcessedUrl,
            !.message = message2]

updateItemFromServer(item, payload) ==
    LET nextStatus ==
            normaliseStatus(StatusOr(payload.status, StatusOr(payload.state, payload.stage)))
        status1 == IF nextStatus # Null THEN nextStatus ELSE item.status
        progress1 ==
            IF IsNumber(payload.progress) THEN normaliseProgress(payload.progress)
            ELSE IF IsNumber(payload.percentage) THEN normaliseProgress(payload.percentage)
            ELSE item.progress
        original == Or(payload.originalUrl, Or(payload.sourceUrl, payload.thumbnailUrl))
        processed == Or(payload.processedUrl, Or(payload.resultUrl, payload.previewUrl))
        processedUrl1 == IF Truthy(processed) THEN processed ELSE item.processedUrl
        downloadOriginal == Or(payload.downloadOriginalUrl, payload.originalDownloadUrl)
        downloadProcessed ==
            Or(payload.downloadProcessedUrl, Or(payload.downloadUrl, payload.resultDownloadUrl))
        hasErrors == Len(payload.errors) > 0
        status2 == IF hasErrors \/ Truthy(payload.error) THEN "failed" ELSE status1
        message2 ==
            IF hasErrors THEN Join(payload.errors)
            ELSE IF Truthy(payload.error) THEN payload.error
            ELSE IF Truthy(payload.message) THEN payload.message
            ELSE item.message
        originalUrl1 == IF Truthy(original) THEN original ELSE item.originalUrl
    IN  [item EXCEPT
            !.status = status2,
            !.progress = IF status2 = "processed" THEN 100 ELSE progress1,
            !.originalUrl = originalUrl1,
            !.originalPreviewUrl =
                IF /\ status2 = "processed"
                   /\ StartsWithBlob(item.originalPreviewUrl)
                   /\ Truthy(originalUrl1)
                   /\ originalUrl1 # item.originalPreviewUrl
                THEN Null
                ELSE item.originalPreviewUrl,
            !.processedUrl =
                IF Truthy(payload.processedPreviewUrl) /\ ~Truthy(processedUrl1)
                THEN payload.processedPreviewUrl
                ELSE processedUrl1,
            !.processedPreviewUrl =
                IF Truthy(payload.processedPreviewUrl)
                THEN payload.processedPreviewUrl
                ELSE item.processedPreviewUrl,
            !.downloadOriginalUrl =
                IF Truthy(downloadOriginal) THEN downloadOriginal
                ELSE item.downloadOriginalUrl,
            !.downloadProcessedUrl =
                IF Truthy(downloadProcessed) THEN downloadProcessed
                ELSE item.downloadProcessedUrl,
            !.message = message2]

\* The body of a status response: null (it did not decode), an array, or an
\* object with its own fields and, possibly, arrays under items, data, result.
IsArray(elements) == [array |-> TRUE, elements |-> elements]
NoArray == [array |-> FALSE, elements |-> << >>]

NullPayload ==
    [kind |-> "null", elements |-> << >>, items |-> NoArray, data |-> NoArray,
     result |-> NoArray, fields |-> NoFields]
ArrayPayload(elements) == [NullPayload EXCEPT !.kind = "array", !.elements = elements]
ObjectPayload(fields) == [NullPayload EXCEPT !.kind = "object", !.fields = fields]

normaliseStatusPayload(payload) ==
    IF payload.kind = "null" THEN << >>
    ELSE IF payload.kind = "array" THEN payload.elements
    ELSE IF payload.items.array THEN payload.items.elements
    ELSE IF payload.data.array THEN payload.data.elements
    ELSE IF payload.result.array THEN payload.result.elements
    ELSE <<payload.fields>>

\* payload?.zipUrl
PayloadZipUrl(payload) ==
    IF payload.kind = "object" THEN payload.fields.zipUrl ELSE Null

\* state.items.find(c => c.serverId === identifier || c.clientId === identifier)
FindByIdentifier(its, identifier) ==
    FirstIndex({i \in 1..Len(its) :
                   its[i].serverId = identifier \/ its[i].clientId = identifier})

RECURSIVE ApplyUpdates(_, _, _, _)
\* updates.forEach(...) of pollStatuses: the queue and latestZipUrl after the
\* entries k.. of updates.
ApplyUpdates(its, latestZipUrl, updates, k) ==
    IF k > Len(updates) THEN [items |-> its, latestZipUrl |-> latestZipUrl]
    ELSE LET entry == updates[k]
             identifier == PayloadIdentifier(entry)
             i == IF Truthy(identifier) THEN FindByIdentifier(its, identifier) ELSE 0
         IN  IF i = 0 THEN ApplyUpdates(its, latestZipUrl, updates, k + 1)
             ELSE LET item == IF ~Truthy(its[i].serverId)
                              THEN [its[i] EXCEPT !.serverId = identifier]
                              ELSE its[i]
                  IN  ApplyUpdates(
                          [its EXCEPT ![i] = updateItemFromServer(item, entry)],
                          IF Truthy(entry.zipUrl) THEN entry.zipUrl ELSE latestZipUrl,
                          updates, k + 1)

\* Tick without the call of stopPolling: a pass that finds no pollable item
\* returns and leaves the timer set.
Tick_NoStop ==
    /\ pollTimer
    /\ IF PollIds(items) = << >>
       THEN UNCHANGED <<pollTimer, intervalTimers, pollErrorNotified, statusRequests, events>>
       ELSE /\ Event
            /\ CanFetchStatus
            /\ statusRequests' = statusRequests + 1
            /\ UNCHANGED <<pollTimer, intervalTimers, pollErrorNotified>>
    /\ last' = Step("tick", 0)
    /\ UNCHANGED <<items, batchDownloadUrl, uploads, processRequests,
                   notifiedSinceSuccess>>

\* The interval timer fires: pollStatuses() up to its fetch, or to its end
\* when no item is pollable.
Tick ==
    /\ pollTimer
    /\ IF PollIds(items) = << >>
       THEN /\ pollTimer' = FALSE
            /\ intervalTimers' = intervalTimers - 1
            /\ pollErrorNotified' = FALSE
            /\ UNCHANGED <<statusRequests, events>>
       ELSE /\ Event
            /\ CanFetchStatus
            /\ statusRequests' = statusRequests + 1
            /\ UNCHANGED <<pollTimer, intervalTimers, pollErrorNotified>>
    /\ last' = Step("tick", 0)
    /\ UNCHANGED <<items, batchDownloadUrl, uploads, processRequests,
                   notifiedSinceSuccess>>

\* A status request returns a success response with body payload.
StatusSuccess(payload) ==
    LET updates == normaliseStatusPayload(payload)
        applied == ApplyUpdates(items, Null, updates, 1)
        latestZipUrl == IF Truthy(PayloadZipUrl(payload)) THEN PayloadZipUrl(payload)
                        ELSE applied.latestZipUrl
        stop == ~SomeShouldPoll(applied.items)
    IN  /\ Event
        /\ statusRequests > 0
        /\ statusRequests' = statusRequests - 1
        /\ items' = applied.items
        /\ batchDownloadUrl' =
              IF Truthy(latestZipUrl) THEN latestZipUrl ELSE batchDownloadUrl
        /\ pollTimer' = (pollTimer /\ ~stop)
        /\ intervalTimers' = intervalTimers - (IF stop /\ pollTimer THEN 1 ELSE 0)
        /\ pollErrorNotified' = FALSE
        /\ notifiedSinceSuccess' = FALSE
        /\ last' = Step("statusSuccess", 0)
        /\ UNCHANGED <<uploads, processRequests>>

\* StatusFailure with a call of stopPolling() in the catch block: a failed
\* pass stops the loop.
StatusFailure_StopsLoop ==
    /\ Event
    /\ statusRequests > 0
    /\ statusRequests' = statusRequests - 1
    /\ pollTimer' = FALSE
    /\ intervalTimers' = intervalTimers - (IF pollTimer THEN 1 ELSE 0)
    /\ pollErrorNotified' = FALSE
    /\ notifiedSinceSuccess' = (notifiedSinceSuccess \/ ~pollErrorNotified)
    /\ last' = Step("statusFailure", IF pollErrorNotified THEN 0 ELSE 1)
    /\ UNCHANGED <<items, batchDownloadUrl, uploads, processRequests>>

\* A status request returns a non-success response or fails in transport.
StatusFailure ==
    /\ Event
    /\ statusRequests > 0
    /\ statusRequests' = statusRequests - 1
    /\ pollErrorNotified' = TRUE
    /\ notifiedSinceSuccess' = (notifiedSinceSuccess \/ ~pollErrorNotified)
    /\ last' = Step("statusFailure", IF pollErrorNotified THEN 0 ELSE 1)
    /\ UNCHANGED <<items, pollTimer, intervalTimers, batchDownloadUrl, uploads, processRequests>>


\* The identifiers the server may name in a status record: the identifier it
\* assigns and the client identifiers.
StatusIdentifiers == {"s1"} \cup { generateClientId(n) : n \in 1..MaxItems }

\* The records of a status response about the upload id.
StatusEntries(id) ==
    { [NoFields EXCEPT !.id = id, !.progress = Number(42)],
      [NoFields EXCEPT !.uuid = id, !.state = <<"D","O","N","E">>],
      [NoFields EXCEPT !.id = id, !.status = <<"u","p","l","o","a","d","e","d">>],
      [NoFields EXCEPT !.fileId = id, !.stage = <<"C","a","n","c","e","l","l","e","d">>],
      [NoFields EXCEPT !.identifier = id, !.percentage = Number(15000)],
      [NoFields EXCEPT !.id = id, !.status = <<"p","r","o","c","e","s","s","i","n","g">>,
                       !.errors = <<"boom">>],
      [NoFields EXCEPT !.id = id, !.zipUrl = "z1"] }

AllStatusEntries == UNION { StatusEntries(id) : id \in StatusIdentifiers }

\* The bodies of a successful status response.
StatusPayloads ==
    {NullPayload}
    \cup { ArrayPayload(<<entry>>) : entry \in AllStatusEntries }
    \cup { ObjectPayload([NoFields EXCEPT !.id = "s1", !.zipUrl = "z2"]) }

Next ==
    \/ \E fileList \in Selections : HandleFileSelection(fileList)
    \/ \E i \in uploads, payload \in UploadPayloads : UploadSuccess(i, payload)
    \/ \E i \in uploads, text \in ErrorTexts : UploadFailure(i, text)
    \/ ProcessAll
    \/ \E i \in 1..Len(items) : ProcessOne(i)
    \/ \E k \in 1..Len(processRequests), zipUrl \in ProcessZipUrls : ProcessSuccess(k, zipUrl)
    \/ \E k \in 1..Len(processRequests) : ProcessFailure(k)
    \/ Tick
    \/ \E payload \in StatusPayloads : StatusSuccess(payload)
    \/ StatusFailure

Spec == Init /\ [][Next]_vars


\* setInterval keeps firing the timer while it is set.
LiveSpec == Spec /\ WF_vars(Tick)

\* The item of a.png after its upload was answered with {id: "s1", status:
\* "uploaded", progress: 100} and a poll pass then reported errors for it.
FailedByPoll ==
    updateItemFromServer(
        UploadedItem(StartUpload(NewItem(generateClientId(1),
                                         File("a.png", 1024, 1, "image/png"))),
                     [NoFields EXCEPT !.id = "s1",
                                      !.status = <<"u","p","l","o","a","d","e","d">>,
                                      !.progress = Number(10000)]),
        [NoFields EXCEPT !.id = "s1",
                         !.status = <<"p","r","o","c","e","s","s","i","n","g">>,
                         !.errors = <<"boom">>])

\* The program after that poll pass: it found nothing left to poll and
\* stopped the loop.  The events are counted from here.
InitAfterFailedByPoll ==
    /\ items = <<FailedByPoll>>
    /\ pollTimer = FALSE
    /\ intervalTimers = 0
    /\ batchDownloadUrl = Null
    /\ pollErrorNotified = FALSE
    /\ notifiedSinceSuccess = FALSE
    /\ uploads = {}
    /\ processRequests = << >>
    /\ statusRequests = 0
    /\ events = 0
    /\ last = Step("statusSuccess", 0)

\* The runs of the program that continue from there.
PollSpec == InitAfterFailedByPoll /\ [][Next]_vars

\* ------------------------------------------- the normalisers on one item

\* The fields of a payload are chosen group by group; a group that sets none
\* of its fields repeats the absent value of one of them.
StatusFields ==
    { [status |-> << >>],
      [status |-> <<"p","r","o","c","e","s","s","i","n","g">>],
      [state |-> <<"D","O","N","E">>],
      [stage |-> <<"C","a","n","c","e","l","l","e","d">>],
      [status |-> <<"R","e","a","d","y">>, state |-> <<"D","O","N","E">>] }

ProgressFields ==
    { [progress |-> Undefined],
      [progress |-> Number(42)],
      [percentage |-> Number(15000)],
      [progress |-> NotANumber, percentage |-> Number(700)] }

ErrorFields ==
    { [error |-> Null],
      [errors |-> <<"boom", "bang">>],
      [error |-> "bad"],
      [message |-> "note"],
      [errors |-> <<"boom">>, error |-> "bad", message |-> "note"] }

MessageFields == { [message |-> Null], [message |-> "note"] }

UrlFields ==
    { [originalUrl |-> Null],
      [originalUrl |-> "o1", processedUrl |-> "p1", downloadOriginalUrl |-> "do1",
       downloadProcessedUrl |-> "dp1", processedDownloadUrl |-> "pd1"],
      [originalUrl |-> "", sourceUrl |-> "o2", thumbnailUrl |-> "o3",
       resultUrl |-> "p2", previewUrl |-> "p3", originalDownloadUrl |-> "do2",
       downloadUrl |-> "dp2", resultDownloadUrl |-> "dp3"],
      [thumbnailUrl |-> "o3", previewUrl |-> "p3", resultDownloadUrl |-> "dp3"],
      [processedPreviewUrl |-> "pp1"],
      [processedPreviewUrl |-> "pp1", downloadOriginalUrl |-> "do1"] }

IdentifierFields ==
    { [id |-> Null],
      [id |-> "i1", uploadId |-> "i2", uuid |-> "i3", fileId |-> "i4",
       identifier |-> "i5"],
      [id |-> "", uploadId |-> "i2", uuid |-> "i3"],
      [uuid |-> "i3", fileId |-> "i4", identifier |-> "i5"],
      [fileId |-> "i4", identifier |-> "i5"],
      [identifier |-> "i5"] }

\* The records of a status response, as updateItemFromServer reads them: a
\* status with a progress and errors, or a status with locations.
StatusRecords ==
    { st @@ pr @@ er @@ NoFields :
        st \in StatusFields, pr \in ProgressFields, er \in ErrorFields }
    \cup { st @@ url @@ NoFields : st \in StatusFields, url \in UrlFields }

\* The bodies of a successful upload response, as uploadFile reads them: an
\* identifier with a status and a progress, or a status with a message and
\* locations.
UploadResponses ==
    { id @@ st @@ pr @@ NoFields :
        id \in IdentifierFields, st \in StatusFields, pr \in ProgressFields }
    \cup { st @@ msg @@ url @@ NoFields :
              st \in StatusFields, msg \in MessageFields, url \in UrlFields }
    \cup { [NoFields EXCEPT !.id = "abc123",
                            !.status = <<"u","p","l","o","a","d","e","d">>,
                            !.progress = Number(10000)] }

\* An item whose upload is pending.
Uploading ==
    StartUpload(NewItem(generateClientId(1), File("a.png", 1024, 1, "image/png")))

\* The item before the payloads: its upload pending, fresh or already named
\* by a poll pass; or its upload done and the item uploaded, in processing,
\* processed with every location known, or failed.
StartItems ==
    { Uploading,
      [Uploading EXCEPT !.serverId = generateClientId(1), !.progress = 42],
      [Uploading EXCEPT !.file = FALSE, !.serverId = "s1", !.status = "uploaded",
                        !.progress = 100],
      [Uploading EXCEPT !.file = FALSE, !.serverId = "s1", !.status = "processing",
                        !.progress = 42, !.message = "old", !.originalUrl = "o0"],
      [Uploading EXCEPT !.file = FALSE, !.serverId = "s1", !.status = "processed",
                        !.progress = 100, !.originalPreviewUrl = Null,
                        !.originalUrl = "o0", !.processedUrl = "p0",
                        !.processedPreviewUrl = "pp0",
                        !.downloadOriginalUrl = "do0",
                        !.downloadProcessedUrl = "dp0"],
      FailedByPoll }

FunctionInit ==
    /\ items \in { <<item>> : item \in StartItems }
    /\ pollTimer = FALSE
    /\ intervalTimers = 0
    /\ batchDownloadUrl = Null
    /\ pollErrorNotified = FALSE
    /\ notifiedSinceSuccess = FALSE
    /\ uploads = IF items[1].file THEN {1} ELSE {}
    /\ processRequests = << >>
    /\ statusRequests = 0
    /\ events = 0
    /\ last = Step("init", 0)

\* One more payload is applied.
Application == events < MaxApplications /\ events' = events + 1

\* The step that applied payload to the item.
Applied(op, payload) == [op |-> op, idx |-> 1, payload |-> payload]

\* updateItemFromServer(item, entry) for a record that names the item.
ApplyStatusRecord(entry) ==
    /\ Application
    /\ items' = [items EXCEPT ![1] = updateItemFromServer(items[1], entry)]
    /\ last' = Applied("updateItemFromServer", entry)
    /\ UNCHANGED <<pollTimer, intervalTimers, batchDownloadUrl, pollErrorNotified,
                   notifiedSinceSuccess, uploads, processRequests, statusRequests>>

\* uploadFile's assignments to the item for a success response.
ApplyUploadResponse(payload) ==
    /\ Application
    /\ 1 \in uploads
    /\ uploads' = uploads \ {1}
    /\ items' = [items EXCEPT ![1] = UploadedItem(items[1], payload)]
    /\ last' = Applied("uploadFile", payload)
    /\ UNCHANGED <<pollTimer, intervalTimers, batchDownloadUrl, pollErrorNotified,
                   notifiedSinceSuccess, processRequests, statusRequests>>

FunctionNext ==
    \/ \E entry \in StatusRecords : ApplyStatusRecord(entry)
    \/ \E payload \in UploadResponses : ApplyUploadResponse(payload)

\* The payloads of the server applied to one item, without the loop and the
\* requests around them.
FunctionSpec == FunctionInit /\ [][FunctionNext]_vars

\* ------------------------------------------- the status strings of the server

toUpperCaseChar(c) ==
    IF \E i \in 1..26 : LowerCase[i] = c
    THEN UpperCase[CHOOSE i \in 1..26 : LowerCase[i] = c]
    ELSE c

\* The string in upper case, and with a capital first letter.
Shouted(chars) == [k \in 1..Len(chars) |-> toUpperCaseChar(chars[k])]
Capitalised(chars) ==
    [k \in 1..Len(chars) |-> IF k = 1 THEN toUpperCaseChar(chars[k]) ELSE chars[k]]

CaseVariants(chars) == {chars, Shouted(chars), Capitalised(chars)}

\* The strings of the cases of normaliseStatus's switch.
SwitchCases ==
    { <<"q","u","e","u","e","d">>,
      <<"w","a","i","t","i","n","g">>,
      <<"p","e","n","d","i","n","g">>,
      <<"u","p","l","o","a","d","i","n","g">>,
      <<"u","p","l","o","a","d","e","d">>,
      <<"r","e","a","d","y">>,
      <<"p","r","o","c","e","s","s","i","n","g">>,
      <<"i","n","_","p","r","o","g","r","e","s","s">>,
      <<"p","r","o","c","e","s","s","e","d">>,
      <<"c","o","m","p","l","e","t","e","d">>,
      <<"c","o","m","p","l","e","t","e">>,
      <<"s","u","c","c","e","s","s">>,
      <<"d","o","n","e">>,
      <<"f","a","i","l","e","d">>,
      <<"e","r","r","o","r">>,
      <<"e","r","r","o","r","e","d">> }

\* Strings the switch has no case for.
UnknownStatuses ==
    { <<"C","a","n","c","e","l","l","e","d">>,
      <<"A","R","C","H","I","V","E","D">>,
      <<"i","n","-","p","r","o","g","r","e","s","s">>,
      <<"I","n"," ","P","r","o","g","r","e","s","s">>,
      <<"D","o","n","e","!">> }

\* The status strings of a record: the cases of the switch in lower case,
\* in upper case and capitalised, and strings it does not know.
StatusStrings ==
    UNION { CaseVariants(chars) : chars \in SwitchCases } \cup UnknownStatuses

NormaliseNext ==
    \E value \in StatusStrings :
        ApplyStatusRecord([NoFields EXCEPT !.status = value])

\* Status records that carry a status string alone, applied to one item.
NormaliseSpec == FunctionInit /\ [][NormaliseNext]_vars

\* ------------------------------------------------------------- the claims

NoPollable == ~SomeShouldPoll(items)

\* C1: in every reachable state every item's progress is an integer in
\* [0,100], whatever progress the server reports.
C1_ProgressInRange ==
    \A i \in 1..Len(items) : items[i].progress \in 0..100

\* C2: when a processing request fails, every item it snapshotted ends with
\* the status and the message captured for it before the optimistic
\* transition, whatever the batch and whatever polls did in between.
C2_RollbackRestoresSnapshot ==
    [][\A k \in 1..Len(processRequests) :
          ProcessFailure(k) =>
              \A n \in 1..Len(processRequests[k].snapshots) :
                  LET snapshot == processRequests[k].snapshots[n] IN
                  /\ items'[snapshot.item].status = snapshot.status
                  /\ items'[snapshot.item].message = snapshot.message]_vars

\* A batch of two items was rolled back, one of them to a failed status with
\* its error message, after a poll had reported progress for it.
C2_Witness ==
    /\ last.op = "processFailure"
    /\ last.idx = 2
    /\ \E i \in 1..Len(items) :
          /\ items[i].status = "failed"
          /\ items[i].message = "boom"
          /\ items[i].progress = 42

\* C3: at most one status request is in flight at any time.
C3_SingleStatusRequest == statusRequests <= 1

\* C4: the queue never holds two items with the same name, size and
\* modification time.
C4_NoDuplicateItems ==
    \A i, j \in 1..Len(items) :
        (/\ items[i].name = items[j].name
         /\ items[i].size = items[j].size
         /\ items[i].lastModified = items[j].lastModified) => i = j

\* C5: once an item's serverId is set, no step changes it.
C5_ServerIdImmutable ==
    [][\A i \in 1..Len(items) :
          Truthy(items[i].serverId) => items'[i].serverId = items[i].serverId]_vars

\* C6: every item whose status is processed has progress 100.
C6_ProcessedIsComplete ==
    \A i \in 1..Len(items) :
        items[i].status = "processed" => items[i].progress = 100

\* C7: no two processing requests in flight target the same item.
C7_NoOverlappingRequests ==
    \A k, m \in 1..Len(processRequests) :
        k # m => SnapshotItems(processRequests[k].snapshots)
                    \cap SnapshotItems(processRequests[m].snapshots) = {}

\* The status strings the server sends in the model's payloads.
ServerStatusStrings ==
    UNION { {payload.status, payload.state, payload.stage}
            : payload \in UploadPayloads \cup AllStatusEntries } \ {<< >>}

\* C8, as claimed: every item's status is one of queued, uploading,
\* uploaded, processing, processed, failed.
C8_CanonicalStatus ==
    \A i \in 1..Len(items) : items[i].status \in CanonicalStatuses

\* C8, amended: every item's status is one of the six canonical statuses or
\* the lower-cased form of a status string the server sent.
C8_CanonicalOrLowerCased ==
    \A i \in 1..Len(items) :
        items[i].status \in
            CanonicalStatuses \cup { toLowerCase(v) : v \in ServerStatusStrings }

\* An item took a status of the server that the table does not know, lower-cased.
C8_Witness ==
    \E i \in 1..Len(items) : items[i].status = "cancelled"

C10_LoopStops ==
    /\ (<>[]NoPollable) => <>[](~pollTimer)
    /\ [][(pollTimer /\ NoPollable /\ Tick)
             => (~pollTimer' /\ statusRequests' = statusRequests)]_vars

\* A tick found no pollable item in a non-empty queue and stopped the loop.
C10_Witness ==
    /\ last.op = "tick"
    /\ ~pollTimer
    /\ Len(items) > 0
    /\ NoPollable

\* C11: a failed poll pass changes no field of any item and not
\* batchDownloadUrl, and it does not stop the loop: a timer that is set stays
\* set.  Of the program's state only the suppression flag may change.
C11_FailedPollFrame ==
    [][last'.op = "statusFailure" =>
          /\ items' = items
          /\ batchDownloadUrl' = batchDownloadUrl
          /\ pollTimer' = pollTimer
          /\ uploads' = uploads
          /\ processRequests' = processRequests]_vars

\* A poll pass failed while an item was being processed, an archive location
\* was known and the loop was running: all of it is still there.
C11_Witness ==
    /\ last.op = "statusFailure"
    /\ pollTimer
    /\ pollErrorNotified
    /\ Truthy(batchDownloadUrl)
    /\ \E i \in 1..Len(items) : items[i].status = "processing"
\* The state InitAfterFailedByPoll starts from, but for the count of events.
C12_AfterFailedByPoll ==
    /\ items = <<FailedByPoll>>
    /\ ~pollTimer
    /\ batchDownloadUrl = Null
    /\ ~pollErrorNotified
    /\ ~notifiedSinceSuccess
    /\ uploads = {}
    /\ processRequests = << >>
    /\ statusRequests = 0
    /\ intervalTimers = 0
    /\ last = Step("statusSuccess", 0)

\* C12: a poll-failure notification is shown only if none was shown since
\* the last successful poll pass, and a successful pass resets the
\* suppression flag.
C12_NotifiedOncePerOutage ==
    /\ [][(last'.op = "statusFailure" /\ last'.idx = 1)
             => ~notifiedSinceSuccess]_vars
    /\ [][last'.op = "statusSuccess" => ~pollErrorNotified']_vars
\* C13: once the upload call of an item has completed, with success or with
\* failure, the item no longer holds its File.
C13_FileReleased ==
    \A i \in 1..Len(items) : i \notin uploads => ~items[i].file

\* C14: when an upload fails the item ends with status failed, progress 0
\* and a non-empty message, the text of the failure or a generic description
\* when there is none, and its serverId is the one it had.
C14_UploadFailureResult ==
    [][\A i \in uploads, text \in ErrorTexts :
          UploadFailure(i, text) =>
              /\ items'[i].status = "failed"
              /\ items'[i].progress = 0
              /\ items'[i].message # ""
              /\ text # "" => items'[i].message = text
              /\ items'[i].serverId = items[i].serverId]_vars

\* An upload failed without a text, for an item a poll pass had already
\* given a serverId.
C14_Witness ==
    /\ last.op = "uploadFailure"
    /\ items[last.idx].status = "failed"
    /\ items[last.idx].progress = 0
    /\ items[last.idx].message = "Upload failed"
    /\ Truthy(items[last.idx].serverId)
RECURSIVE FirstNonEmpty(_)
\* The first string of values that is neither absent nor empty.
FirstNonEmpty(values) ==
    IF values = << >> THEN Null
    ELSE IF Truthy(Head(values)) THEN Head(values)
    ELSE FirstNonEmpty(Tail(values))

\* C15: a successful upload response gives the item the first non-empty
\* identifier of the payload (else the serverId it had, else its clientId),
\* the normalised status of the payload (uploaded when it has none) and the
\* normalised explicit progress (100 when it has none, and 100 when the
\* status is processed).
C15_UploadSuccessMapping ==
    [][last'.op = "uploadFile" =>
          LET payload == last'.payload
              reported == normaliseStatus(
                  IF payload.status # << >> THEN payload.status ELSE payload.state)
              status == IF reported = Null THEN "uploaded" ELSE reported
          IN  /\ items'[1].serverId =
                     FirstNonEmpty(<<payload.id, payload.uploadId, payload.uuid,
                                     payload.fileId, payload.identifier,
                                     items[1].serverId, items[1].clientId>>)
              /\ items'[1].status = status
              /\ items'[1].progress =
                     IF status = "processed" THEN 100
                     ELSE IF payload.progress = Undefined THEN 100
                     ELSE normaliseProgress(payload.progress)]_vars

\* The response {id: "abc123", status: "uploaded", progress: 100} was applied.
C15_Witness ==
    /\ last.op = "uploadFile"
    /\ items[1].serverId = "abc123"
    /\ items[1].status = "uploaded"
    /\ items[1].progress = 100

\* C16: a status record with a non-empty errors list, or with an error
\* field, leaves the item failed with the error text as its message,
\* whatever status and progress the record reports.
C16_ErrorsForceFailed ==
    [][(/\ last'.op = "updateItemFromServer"
        /\ last'.payload.errors # << >> \/ Truthy(last'.payload.error))
          => /\ items'[1].status = "failed"
             /\ items'[1].message =
                   (CASE last'.payload.errors = <<"boom", "bang">> -> "boom bang"
                      [] last'.payload.errors = <<"boom">> -> "boom"
                      [] OTHER -> last'.payload.error)]_vars

\* A record with two errors and a progress of 150 was applied.
C16_Witness ==
    /\ last.op = "updateItemFromServer"
    /\ last.payload.errors = <<"boom", "bang">>
    /\ last.payload.percentage = Number(15000)
    /\ last.payload.state = <<"D","O","N","E">>
    /\ items[1].status = "failed"
    /\ items[1].message = "boom bang"
    /\ items[1].progress = 150

\* C17: applying a status record to an item a second time changes nothing.
C17_UpdateIdempotent ==
    [][last'.op = "updateItemFromServer"
          => updateItemFromServer(items'[1], last'.payload) = items'[1]]_vars

\* A record filled the empty processedUrl from its processedPreviewUrl and
\* reported the item processed: a second application finds both changed.
C17_Witness ==
    /\ last.op = "updateItemFromServer"
    /\ items[1].status = "processed"
    /\ items[1].progress = 100
    /\ items[1].processedUrl = "pp1"
    /\ items[1].processedPreviewUrl = "pp1"

\* The fields of a payload that uploadFile or updateItemFromServer read for a
\* location of the item.
UrlAliases ==
    [ originalUrl |-> {"originalUrl", "sourceUrl", "thumbnailUrl"},
      processedUrl |-> {"processedUrl", "resultUrl", "previewUrl", "processedPreviewUrl"},
      downloadOriginalUrl |-> {"downloadOriginalUrl", "originalDownloadUrl"},
      downloadProcessedUrl |-> {"downloadProcessedUrl", "processedDownloadUrl",
                                "downloadUrl", "resultDownloadUrl"} ]

\* The non-empty locations the server sends in the model's payloads.
ServerUrls ==
    { v \in UNION { { payload[a] : a \in UNION { UrlAliases[f] : f \in DOMAIN UrlAliases } }
                    : payload \in StatusRecords \cup UploadResponses } : Truthy(v) }

\* C18: a location of an item that is set is never cleared; it changes only
\* to a non-empty location the server sent, and a payload without the field
\* leaves it as it is.
C18_UrlsNeverCleared ==
    [][\A f \in DOMAIN UrlAliases :
          /\ Truthy(items[1][f]) => Truthy(items'[1][f])
          /\ items'[1][f] # items[1][f] => items'[1][f] \in ServerUrls
          /\ (/\ Truthy(items[1][f])
              /\ \A a \in UrlAliases[f] : ~Truthy(last'.payload[a]))
                => items'[1][f] = items[1][f]]_vars

\* An upload response without a location for the processed download was
\* applied after a status record had set it.
C18_Witness ==
    /\ last.op = "uploadFile"
    /\ \A a \in UrlAliases.downloadProcessedUrl : ~Truthy(last.payload[a])
    /\ items[1].downloadProcessedUrl = "dp1"
\* a and b have the same name, size and modification time.
SameFile(a, b) ==
    a.name = b.name /\ a.size = b.size /\ a.lastModified = b.lastModified

\* C19: a selected file with the name, size and modification time of an item
\* of the queue is rejected without mutation: the items of the queue are
\* unchanged, no item is added for it and no upload is started for it; a
\* selection that is rejected as a whole changes nothing.
C19_DuplicateRejected ==
    [][last'.op = "handleFileSelection" =>
          /\ Len(items') >= Len(items)
          /\ \A i \in 1..Len(items) : items'[i] = items[i]
          /\ \A j \in (Len(items) + 1)..Len(items') :
                \A i \in 1..Len(items) : ~SameFile(items'[j], items[i])
          /\ uploads' \ uploads = (Len(items) + 1)..Len(items')
          /\ last'.idx = 0 =>
                /\ items' = items
                /\ uploads' = uploads
                /\ batchDownloadUrl' = batchDownloadUrl]_vars

\* A selection was rejected as a whole, a file of it as the duplicate of an item.
C19_Witness ==
    /\ last.op = "handleFileSelection"
    /\ last.duplicateOf # {}
    /\ last.idx = 0
    /\ Len(items) > 0

\* The upload of item i of the queue its has failed: uploadFile's catch block
\* is the only code that leaves an item failed and holding its File.
UploadHasFailed(its, pending, i) ==
    its[i].status = "failed" /\ its[i].file /\ i \notin pending

\* C20: no upload request is issued again for an item of the queue, and a
\* failed upload is recoverable by enqueueing the file again: a selected file
\* is not rejected as the duplicate of an item whose upload has failed.
C20_FailedUploadRecoverable ==
    /\ [][\A i \in 1..Len(items) : i \in uploads' => i \in uploads]_vars
    /\ [][last'.op = "handleFileSelection" =>
             \A i \in last'.duplicateOf : ~UploadHasFailed(items, uploads, i)]_vars

\* C21: whenever no call is pending and some item is pollable, the polling
\* timer is set: no outcome of an upload or of a processing request leaves a
\* pollable item without a running loop.
C21_PollableImpliesTimer ==
    (/\ uploads = {}
     /\ processRequests = << >>
     /\ statusRequests = 0
     /\ SomeShouldPoll(items)) => pollTimer
\* The table of C22: the status of each known word.
C22_Table ==
    { [word |-> <<"q","u","e","u","e","d">>, status |-> "uploaded"],
      [word |-> <<"w","a","i","t","i","n","g">>, status |-> "uploaded"],
      [word |-> <<"p","e","n","d","i","n","g">>, status |-> "uploaded"],
      [word |-> <<"u","p","l","o","a","d","i","n","g">>, status |-> "uploading"],
      [word |-> <<"u","p","l","o","a","d","e","d">>, status |-> "uploaded"],
      [word |-> <<"r","e","a","d","y">>, status |-> "uploaded"],
      [word |-> <<"p","r","o","c","e","s","s","i","n","g">>, status |-> "processing"],
      [word |-> <<"i","n","_","p","r","o","g","r","e","s","s">>, status |-> "processing"],
      [word |-> <<"p","r","o","c","e","s","s","e","d">>, status |-> "processed"],
      [word |-> <<"c","o","m","p","l","e","t","e","d">>, status |-> "processed"],
      [word |-> <<"c","o","m","p","l","e","t","e">>, status |-> "processed"],
      [word |-> <<"s","u","c","c","e","s","s">>, status |-> "processed"],
      [word |-> <<"d","o","n","e">>, status |-> "processed"],
      [word |-> <<"f","a","i","l","e","d">>, status |-> "failed"],
      [word |-> <<"e","r","r","o","r">>, status |-> "failed"],
      [word |-> <<"e","r","r","o","r","e","d">>, status |-> "failed"] }

\* The lower-cased form of each other string.
C22_Others ==
    { [value |-> <<"C","a","n","c","e","l","l","e","d">>, status |-> "cancelled"],
      [value |-> <<"A","R","C","H","I","V","E","D">>, status |-> "archived"],
      [value |-> <<"i","n","-","p","r","o","g","r","e","s","s">>, status |-> "in-progress"],
      [value |-> <<"I","n"," ","P","r","o","g","r","e","s","s">>, status |-> "in progress"],
      [value |-> <<"D","o","n","e","!">>, status |-> "done!"] }

\* C22: normaliseStatus maps a status string by the table whatever its case,
\* and returns any other non-empty string lower-cased.
C22_StatusTable ==
    [][last'.op = "updateItemFromServer" =>
          LET value == last'.payload.status IN
          /\ \A row \in C22_Table :
                value \in CaseVariants(row.word) => items'[1].status = row.status
          /\ \A row \in C22_Others :
                value = row.value => items'[1].status = row.status
          /\ \/ \E row \in C22_Table : value \in CaseVariants(row.word)
             \/ \E row \in C22_Others : value = row.value]_vars

\* The record {status: "IN_PROGRESS"} was applied.
C22_Witness ==
    /\ last.op = "updateItemFromServer"
    /\ last.payload.status = <<"I","N","_","P","R","O","G","R","E","S","S">>
    /\ items[1].status = "processing"
\* The step was a click that issued a processing request.
ProcessingRequested(step) == step.op \in {"processOne", "processAll"}

\* The items the processing request issued last has snapshotted.
LastSnapshotItems(requests) == SnapshotItems(requests[Len(requests)].snapshots)

\* C23: issuing a processing request leaves every item it snapshots, before
\* the call is made, with status processing, an empty message and the
\* greater of its progress and 5; the progress is never lowered.
C23_OptimisticTransition ==
    [][ProcessingRequested(last') =>
          \A i \in LastSnapshotItems(processRequests') :
              /\ items'[i].status = "processing"
              /\ items'[i].message = ""
              /\ items'[i].progress =
                    (IF items[i].progress > 5 THEN items[i].progress ELSE 5)
              /\ items'[i].progress >= items[i].progress]_vars

\* A batch of two was requested: the progress of one item was raised from 0
\* to 5, the progress 100 of the other was kept.
C23_Witness ==
    /\ last.op = "processAll"
    /\ LastSnapshotItems(processRequests) = {1, 2}
    /\ \E i, j \in 1..Len(items) :
          /\ items[i].status = "processing" /\ items[i].progress = 5
          /\ items[j].status = "processing" /\ items[j].progress = 100

\* C24: every item a processing request snapshots and moves to processing
\* satisfied canRequestProcessing just before, for process-one and for
\* process-all and whatever identifiers the server assigned.
C24_SnapshotsEligible ==
    [][ProcessingRequested(last') =>
          \A i \in LastSnapshotItems(processRequests') :
              canRequestProcessing(items[i])]_vars

\* C25: the rollback of a failed processing request changes the status and
\* the message of the items it snapshotted and nothing else: their other
\* fields, the other items, batchDownloadUrl and the polling timer stay.
C25_RollbackFrame ==
    [][\A k \in 1..Len(processRequests) :
          ProcessFailure(k) =>
              /\ Len(items') = Len(items)
              /\ \A i \in 1..Len(items) :
                    IF i \in SnapshotItems(processRequests[k].snapshots)
                    THEN [items'[i] EXCEPT !.status = items[i].status,
                                           !.message = items[i].message] = items[i]
                    ELSE items'[i] = items[i]
              /\ batchDownloadUrl' = batchDownloadUrl
              /\ pollTimer' = pollTimer
              /\ intervalTimers' = intervalTimers
              /\ statusRequests' = statusRequests
              /\ pollErrorNotified' = pollErrorNotified]_vars

\* A request for one of two items was rolled back while the loop ran, after
\* a poll pass had set the progress of the item to 42.
C25_Witness ==
    /\ last.op = "processFailure"
    /\ last.idx = 1
    /\ Len(items) = 2
    /\ pollTimer
    /\ \E i \in 1..Len(items) :
          items[i].progress = 42 /\ items[i].status = "uploaded"

\* C26: ensurePolling with a timer set issues no status request and changes
\* nothing, so that at most one interval timer exists; with no timer set and
\* a pollable item it issues one request and sets the timer.
C26_EnsurePollingNoOp ==
    /\ [](intervalTimers = IF pollTimer THEN 1 ELSE 0)
    /\ [][(last'.op = "uploadSuccess" \/ ProcessingRequested(last')) =>
             IF pollTimer
             THEN /\ pollTimer'
                  /\ intervalTimers' = intervalTimers
                  /\ statusRequests' = statusRequests
                  /\ pollErrorNotified' = pollErrorNotified
             ELSE IF SomeShouldPoll(items')
             THEN /\ pollTimer'
                  /\ intervalTimers' = 1
                  /\ statusRequests' = statusRequests + 1
             ELSE /\ ~pollTimer'
                  /\ intervalTimers' = 0
                  /\ statusRequests' = statusRequests]_vars

\* A click moved an item to processing while the loop was running:
\* ensurePolling found the timer set and started nothing.
C26_Witness ==
    /\ last.op = "processOne"
    /\ ~last.started
    /\ pollTimer
    /\ intervalTimers = 1
    /\ statusRequests = 0

RECURSIVE LastRecordZipUrl(_, _)
\* The archive location of the last of the records 1..k of updates that
\* carries one, Null when none does.
LastRecordZipUrl(updates, k) ==
    IF k = 0 THEN Null
    ELSE IF Truthy(updates[k].zipUrl) THEN updates[k].zipUrl
    ELSE LastRecordZipUrl(updates, k - 1)

\* The archive location a status response carries: its top-level one, else
\* the one of its last record that carries one.
CarriedZipUrl(payload) ==
    IF Truthy(PayloadZipUrl(payload)) THEN PayloadZipUrl(payload)
    ELSE LastRecordZipUrl(normaliseStatusPayload(payload),
                          Len(normaliseStatusPayload(payload)))

\* C27: a successful poll pass whose response carries an archive location
\* leaves batchDownloadUrl equal to the top-level location, else to the
\* location of the last record that carries one.
C27_BatchUrlAdopted ==
    [][\A payload \in StatusPayloads :
          (StatusSuccess(payload) /\ Truthy(CarriedZipUrl(payload))) =>
              batchDownloadUrl' = CarriedZipUrl(payload)]_vars

\* C28: whenever the polling loop is stopped the flag pollErrorNotified is
\* false, also when a status request was pending as the loop stopped.
C28_StoppedImpliesNotNotified == ~pollTimer => ~pollErrorNotified

\* C29: a status response to a request issued before a processing request
\* moved its items to processing leaves them processing while the processing
\* request is pending. (After a click that found the loop running and
\* started no pass, every pending status request is older than the click.)
C29_StaleResponseKeepsProcessing ==
    [][(/\ ProcessingRequested(last)
        /\ ~last.started
        /\ last'.op = "statusSuccess") =>
          \A i \in LastSnapshotItems(processRequests) :
              items'[i].status = "processing"]_vars

====
